---------------------------- MODULE Spec2Model ----------------------------
(***************************************************************************)
(* Model of information/data_processing.py:                                *)
(*   - SimilarityProcessor.combine_duplicate_topics (greedy clustering)    *)
(*   - SimilarityProcessor.combine_topics (merge of one cluster)           *)
(*   - NamedEntityRecognizer (primary extractor, filters, local fallback)  *)
(*                                                                         *)
(* Conventions.                                                            *)
(*   A Python dict is a function whose DOMAIN is the set of keys present.  *)
(*   A Python value is held as an option: None is <<>> and a value v is    *)
(*   <<v>>, so that "x is None" is a comparison of like with like.         *)
(*   A Python list that can be shared (seed_links) is an object of `heap`, *)
(*   named by its address; a topic's 'seed_links' value is the address.    *)
(*   Sequences are 1-based here and 0-based in the source.                 *)
(*   A loop is a RECURSIVE operator; the value a pass produces is bound by  *)
(*   x \in {e} before the next pass, which makes TLC compute it once.      *)
(*   Similarity scores are in tenths (0.5 is 5); count_reduced is kept in  *)
(*   thousandths (1.0 is 1000).                                            *)
(***************************************************************************)
EXTENDS Integers, Sequences, FiniteSets, TLC

\* ------------------------------------------------------------------ bounds
\* longest batch handed to combine_duplicate_topics
MaxBatch == 3
\* longest cluster handed directly to combine_topics
MaxCluster == 3

\* ------------------------------------------------------- python primitives
None == <<>>
Some(v) == <<v>>
Val(x) == x[1]

\* dict.get(key, None)
Get(d, key) == IF key \in DOMAIN d THEN d[key] ELSE None
\* dict.get(key, default)
GetDefault(d, key, default) == IF key \in DOMAIN d THEN d[key] ELSE default
\* d[key] = value
Put(d, key, value) ==
    [k \in (DOMAIN d) \cup {key} |-> IF k = key THEN value ELSE d[k]]
\* {}
EmptyDict == [k \in {} |-> None]

Range(s) == {s[i] : i \in 1..Len(s)}

\* ------------------------------------------------------------ combine_topics
\* the scalar fields in the order combine_topics tests them
\* ('source' is tested twice in the source)
ScalarOrder ==
    <<"title", "suggested_query", "image_url", "summary", "source", "source",
      "provided_category", "topic_type_id">>

\* faulty variant: the guard on the combined topic is dropped, so a later topic
\* overwrites a field that is already set
first_wins_overwrite(combined, topic, f) ==
    IF Get(topic, f) # None THEN Put(combined, f, topic[f]) ELSE combined

\* if combined.get(f) is None and topic.get(f) is not None: combined[f] = topic[f]
first_wins(combined, topic, f) ==
    IF Get(combined, f) = None /\ Get(topic, f) # None
    THEN Put(combined, f, topic[f])
    ELSE combined

RECURSIVE merge_scalars(_, _, _)
merge_scalars(combined, topic, i) ==
    IF i > Len(ScalarOrder) THEN combined
    ELSE CHOOSE r \in {merge_scalars(c, topic, i + 1) :
                          c \in {first_wins(combined, topic, ScalarOrder[i])}} : TRUE

\* the 'doc' block: first doc, then += "; " + doc
merge_doc(combined, topic) ==
    IF Get(combined, "doc") = None /\ Get(topic, "doc") # None
    THEN Put(combined, "doc", topic["doc"])
    ELSE IF Get(combined, "doc") # None /\ Get(topic, "doc") # None
    THEN Put(combined, "doc",
             Some(Val(combined["doc"]) \o "; " \o Val(topic["doc"])))
    ELSE combined

\* [seed_link['url'] for seed_link in combined_topic['seed_links']]
Urls(links) == {links[i].url : i \in 1..Len(links)}

\* for link in topic['seed_links']: append when its url is not yet there.
\* The loop reads the source list by position on every step, as Python's list
\* iterator does, so a source list that is the destination list is handled
\* as the interpreter handles it.
RECURSIVE append_new_links(_, _, _, _)
append_new_links(h, src, dst, i) ==
    IF i > Len(h[src]) THEN h
    ELSE LET link == h[src][i]
         IN  IF link.url \notin Urls(h[dst])
             THEN append_new_links([h EXCEPT ![dst] = Append(@, link)], src, dst, i + 1)
             ELSE append_new_links(h, src, dst, i + 1)

NewAddress(h) == IF DOMAIN h = {} THEN 1
                 ELSE (CHOOSE a \in DOMAIN h : \A b \in DOMAIN h : b <= a) + 1

\* faulty variant: the first seed_links list is taken by reference instead of copied
first_seed_links_alias(ch, topic) ==
    [combined |-> Put(ch.combined, "seed_links", topic["seed_links"]),
     heap |-> ch.heap]

\* combined_topic['seed_links'] = topic['seed_links'].copy()
first_seed_links(ch, topic) ==
    LET a == NewAddress(ch.heap)
    IN  [combined |-> Put(ch.combined, "seed_links", Some(a)),
         heap |-> (a :> ch.heap[Val(topic["seed_links"])]) @@ ch.heap]

\* the 'seed_links' block; ch is the pair (combined topic, heap)
merge_seed_links(ch, topic) ==
    IF Get(ch.combined, "seed_links") = None /\ Get(topic, "seed_links") # None
    THEN first_seed_links(ch, topic)
    ELSE IF Get(ch.combined, "seed_links") # None /\ Get(topic, "seed_links") # None
    THEN [combined |-> ch.combined,
          heap |-> append_new_links(ch.heap, Val(topic["seed_links"]),
                                    Val(ch.combined["seed_links"]), 1)]
    ELSE ch

\* the 'related_topics' block: (title, source-or-"") of every titled topic
merge_related(combined, topic) ==
    LET pair == <<Val(topic["title"]), GetDefault(topic, "source", Some(""))>>
    IN  IF Get(combined, "related_topics") = None /\ Get(topic, "title") # None
        THEN Put(combined, "related_topics", Some(<<pair>>))
        ELSE IF Get(topic, "title") # None
        THEN Put(combined, "related_topics",
                 Some(Append(Val(combined["related_topics"]), pair)))
        ELSE combined

\* math.log(s, 2) in thousandths, for s in 1..16
Log2Milli(s) ==
    <<0, 1000, 1585, 2000, 2322, 2585, 2807, 3000,
      3170, 3322, 3459, 3585, 3700, 3807, 3907, 4000>>[s]

\* faulty variant: the topics are counted without taking one off
count_reduced_no_minus_one(k, s) ==
    IF s < 2 THEN k * 1000 ELSE (k * 1000 * 1000) \div Log2Milli(s)

\* count_reduced for a cluster of k topics whose first topic has s streams,
\* in thousandths
count_reduced(k, s) ==
    IF s < 2 THEN (k - 1) * 1000
    ELSE ((k - 1) * 1000 * 1000) \div Log2Milli(s)

\* one pass of the body of "for topic in topics"
merge_one(ch, topic) ==
    LET c1 == merge_doc(merge_scalars(ch.combined, topic, 1), topic)
        ch2 == merge_seed_links([combined |-> c1, heap |-> ch.heap], topic)
    IN  [combined |-> merge_related(ch2.combined, topic), heap |-> ch2.heap]

RECURSIVE merge_loop(_, _, _)
merge_loop(ch, topics, i) ==
    IF i > Len(topics) THEN ch
    ELSE CHOOSE r \in {merge_loop(next, topics, i + 1) :
                          next \in {merge_one(ch, topics[i])}} : TRUE

\* combine_topics(topics) run on heap h: the new topic and the heap after.
\* topics is a non-empty sequence of topic dicts.
combine_topics(topics, h) ==
    LET ch == merge_loop([combined |-> EmptyDict, heap |-> h], topics, 1)
        num_aggregate_streams ==
            Val(GetDefault(topics[1], "num_aggregate_streams", Some(1)))
    IN  [combined |-> Put(ch.combined, "count_reduced",
                          Some(count_reduced(Len(topics), num_aggregate_streams))),
         heap |-> ch.heap]

\* ------------------------------------------------------------------ topics
VARIABLES
    entry,                \* the entry point called: combine_duplicate_topics or combine_topics
    normalized_list,      \* the argument: the batch (for combine_topics, its `topics`)
    heap,                 \* the list objects: address -> sequence of links
    input_list,           \* the argument as it was when the call was made
    input_heap,           \* the heap as it was when the call was made
    sims,                 \* lsi_index: sims[i][j] is the score of topic j for a query with topic i
    available_list,
    new_normalized_list,  \* the topics built so far (for combine_topics, the one it returns)
    clusters,             \* the lists handed to combine_topics so far, as batch positions
    list_index,
    sims_query,
    sims_index,
    topics_to_combine,    \* as batch positions: the list holds references to the batch's topics
    pc

topic_vars ==
    <<entry, normalized_list, heap, input_list, input_heap, sims, available_list,
      new_normalized_list, clusters, list_index, sims_query, sims_index,
      topics_to_combine, pc>>

VARIABLES
    ALLOWED_NER_TYPES,    \* GoogleNLP.ALLOWED_NER_TYPES, set outside this file
    ner_primary,          \* what GoogleNLP.analyze_entities does when called
    ner_ents,             \* what self.nlp(doc).ents holds when called
    ner_call,             \* the method called and its arguments
    ner_doc,              \* the document handed to the extractors
    ner_result,           \* what the call returned or raised
    ner_pc

entity_vars ==
    <<ALLOWED_NER_TYPES, ner_primary, ner_ents, ner_call, ner_doc, ner_result, ner_pc>>

VARIABLES
    db,                   \* the stored EmailUser rows: pk -> [username, email]
    db_collation,         \* how the database compares text under its unique constraints
    next_pk,              \* the next automatic primary key
    u_self,               \* per request: the instance save() is called on
    u_pc,                 \* per request: where its save() stands
    saves                 \* the number of save() calls started

user_vars == <<db, db_collation, next_pk, u_self, u_pc, saves>>

vars == <<topic_vars, entity_vars, user_vars>>

\* hardcoded similarity score of 0.5, in tenths
Threshold == 5

\* the scores two different topics can have, in tenths: below the threshold,
\* equal to it, and 1.0 (the same text)
OffScores == {3, 5, 10}

ScalarFields ==
    {"title", "summary", "image_url", "suggested_query", "source",
     "provided_category", "topic_type_id"}

Link(url, title) == [url |-> url, title |-> title, snippet |-> "snippet of " \o title]

\* a topic with the scalar fields of `present` set to the field's name followed
\* by tag, and those of `nulls` set to None
Scalars(tag, present, nulls) ==
    [f \in present \cup nulls |-> IF f \in nulls THEN None ELSE Some(f \o tag)]

\* The topics the inputs are drawn from. `links` is what the topic's seed_links
\* list holds (None: the topic has no such list).
Pool ==
    <<[fields |-> Put(Put(Scalars("1", ScalarFields, {}), "doc", Some("d1")),
                      "num_aggregate_streams", Some(1)),
       links |-> Some(<<Link("u1", "a"), Link("u2", "b")>>)],
      [fields |-> Put(Put(Scalars("2", ScalarFields, {}), "doc", Some("d2")),
                      "num_aggregate_streams", Some(4)),
       links |-> Some(<<Link("u2", "b"), Link("u1", "a2"), Link("u3", "c")>>)],
      [fields |-> Scalars("3", {"title"}, {"summary"}),
       links |-> Some(<<Link("u1", "a"), Link("u1", "a2")>>)],
      [fields |-> Put(Put(Put(Scalars("4", {"source", "provided_category", "topic_type_id"},
                                      {"title"}),
                              "doc", Some("d4")),
                          "num_aggregate_streams", Some(2)),
                      "seed_links", None),
       links |-> None],
      [fields |-> Put(Scalars("5", {"summary", "image_url"}, {}),
                      "num_aggregate_streams", Some(3)),
       links |-> None],
      [fields |-> Scalars("6", {"title"}, {}),
       links |-> Some(<<Link("u3", "c")>>)]>>

\* the topics a batch of combine_duplicate_topics is drawn from: those with a 'doc'
ClusterPool == {1, 2, 4}

\* the topic objects of a call whose argument is made of the pool's topics
\* `choice`: the list of topic i is the heap object at address i
TopicsOf(choice) ==
    [i \in 1..Len(choice) |->
        IF Pool[choice[i]].links = None THEN Pool[choice[i]].fields
        ELSE Put(Pool[choice[i]].fields, "seed_links", Some(i))]

HeapOf(choice) ==
    [i \in {j \in 1..Len(choice) : Pool[choice[j]].links # None} |->
        Val(Pool[choice[i]].links)]

Sequences1(S, n) == UNION {[1..m -> S] : m \in 1..n}

Pairs(n) == {<<i, j>> \in (1..n) \X (1..n) : i < j}

\* What MatrixSimilarity answers. A topic's score with itself is 1.0, unless
\* its document has no token left after preprocessing (`empty`): its vector is
\* then zero and every score of its row and column is 0. Scores are symmetric.
SimsOf(n, off, empty) ==
    [i \in 1..n |-> [j \in 1..n |->
        IF i \in empty \/ j \in empty THEN 0
        ELSE IF i = j THEN 10
        ELSE IF i < j THEN off[<<i, j>>] ELSE off[<<j, i>>]]]

InitTopics ==
    /\ \/ /\ entry = "combine_duplicate_topics"
          /\ \E choice \in Sequences1(ClusterPool, MaxBatch) :
                /\ normalized_list = TopicsOf(choice)
                /\ heap = HeapOf(choice)
                /\ \E off \in [Pairs(Len(choice)) -> OffScores],
                      empty \in SUBSET (1..Len(choice)) :
                      sims = SimsOf(Len(choice), off, empty)
          \* available_list = [1 for __ in range(0, len(normalized_list))]
          /\ available_list = [i \in 1..Len(normalized_list) |-> 1]
          /\ pc = "for"
       \/ /\ entry = "combine_topics"
          /\ \E choice \in Sequences1(1..Len(Pool), MaxCluster) :
                /\ normalized_list = TopicsOf(choice)
                /\ heap = HeapOf(choice)
          /\ sims = <<>>
          /\ available_list = <<>>
          /\ pc = "call"
    /\ input_list = normalized_list
    /\ input_heap = heap
    /\ new_normalized_list = <<>>
    /\ clusters = <<>>
    /\ list_index = 1
    /\ sims_query = <<>>
    /\ sims_index = 1
    /\ topics_to_combine = <<>>

\* sorted(enumerate(sims_query), key=lambda item: -item[1]): Python's sort is
\* stable, so equal scores stay in batch order: the items are inserted in
\* batch order, each after every item that scores at least as high.
RECURSIVE InsertByScore(_, _)
InsertByScore(item, sorted) ==
    IF sorted = <<>> THEN <<item>>
    ELSE IF Head(sorted)[2] >= item[2]
         THEN <<Head(sorted)>> \o InsertByScore(item, Tail(sorted))
         ELSE <<item>> \o sorted

RECURSIVE SortedFrom(_, _, _)
SortedFrom(row, i, sorted) ==
    IF i > Len(row) THEN sorted
    ELSE SortedFrom(row, i + 1, InsertByScore(<<i, row[i]>>, sorted))

SortedSims(row) == SortedFrom(row, 1, <<>>)

N == Len(normalized_list)

\* for list_index, topic in enumerate(normalized_list):
\*     if available_list[list_index] == 0: continue
ForSkip ==
    /\ entry = "combine_duplicate_topics" /\ pc = "for"
    /\ list_index <= N
    /\ available_list[list_index] = 0
    /\ list_index' = list_index + 1
    /\ UNCHANGED <<entry, normalized_list, heap, input_list, input_heap, sims, available_list,
                   new_normalized_list, clusters, sims_query, sims_index,
                   topics_to_combine, pc>>
    /\ UNCHANGED <<entity_vars, user_vars>>

\* the value line 291 stores for the seed
seed_mark == 1

\* the similarity query of the seed and the start of its cluster
ForSeed ==
    /\ entry = "combine_duplicate_topics" /\ pc = "for"
    /\ list_index <= N
    /\ available_list[list_index] # 0
    /\ sims_query' = SortedSims(sims[list_index])
    /\ sims_index' = 1
    /\ topics_to_combine' = <<list_index>>
    /\ available_list' = [available_list EXCEPT ![list_index] = seed_mark]
    /\ pc' = "while"
    /\ UNCHANGED <<entry, normalized_list, heap, input_list, input_heap, sims,
                   new_normalized_list, clusters, list_index>>
    /\ UNCHANGED <<entity_vars, user_vars>>

\* while sims_query[sims_index][1] >= 0.5: one pass of the body
WhileBody ==
    /\ pc = "while"
    /\ sims_index <= Len(sims_query)
    /\ sims_query[sims_index][2] >= Threshold
    /\ LET index_in_list == sims_query[sims_index][1]
       IN  IF available_list[index_in_list] # 0
           THEN /\ topics_to_combine' = Append(topics_to_combine, index_in_list)
                /\ available_list' = [available_list EXCEPT ![index_in_list] = 0]
           ELSE UNCHANGED <<topics_to_combine, available_list>>
    /\ sims_index' = sims_index + 1
    /\ UNCHANGED <<entry, normalized_list, heap, input_list, input_heap, sims,
                   new_normalized_list, clusters, list_index, sims_query, pc>>
    /\ UNCHANGED <<entity_vars, user_vars>>

\* the while test reads sims_query[sims_index] with sims_index past the last
\* result: the subscript raises IndexError, which nothing catches
WhileIndexError ==
    /\ pc = "while"
    /\ sims_index > Len(sims_query)
    /\ pc' = "IndexError"
    /\ UNCHANGED <<entry, normalized_list, heap, input_list, input_heap, sims, available_list,
                   new_normalized_list, clusters, list_index, sims_query, sims_index,
                   topics_to_combine>>
    /\ UNCHANGED <<entity_vars, user_vars>>

\* the while test fails: new_normalized_list.append(cls.combine_topics(topics_to_combine))
WhileExit ==
    /\ pc = "while"
    /\ sims_index <= Len(sims_query)
    /\ sims_query[sims_index][2] < Threshold
    /\ LET r == combine_topics([k \in 1..Len(topics_to_combine) |->
                                   normalized_list[topics_to_combine[k]]], heap)
       IN  /\ new_normalized_list' = Append(new_normalized_list, r.combined)
           /\ heap' = r.heap
    /\ clusters' = Append(clusters, topics_to_combine)
    /\ list_index' = list_index + 1
    /\ pc' = "for"
    /\ UNCHANGED <<entry, normalized_list, input_list, input_heap, sims, available_list,
                   sims_query, sims_index, topics_to_combine>>
    /\ UNCHANGED <<entity_vars, user_vars>>

\* return new_normalized_list
Return ==
    /\ entry = "combine_duplicate_topics" /\ pc = "for"
    /\ list_index > N
    /\ pc' = "done"
    /\ UNCHANGED <<entry, normalized_list, heap, input_list, input_heap, sims, available_list,
                   new_normalized_list, clusters, list_index, sims_query, sims_index,
                   topics_to_combine>>
    /\ UNCHANGED <<entity_vars, user_vars>>

\* a direct call combine_topics(topics)
CallCombineTopics ==
    /\ entry = "combine_topics" /\ pc = "call"
    /\ LET r == combine_topics(normalized_list, heap)
       IN  /\ new_normalized_list' = <<r.combined>>
           /\ heap' = r.heap
    /\ clusters' = <<[k \in 1..N |-> k]>>
    /\ pc' = "done"
    /\ UNCHANGED <<entry, normalized_list, input_list, input_heap, sims, available_list,
                   list_index, sims_query, sims_index, topics_to_combine>>
    /\ UNCHANGED <<entity_vars, user_vars>>

NextTopics ==
    \/ ForSkip
    \/ ForSeed
    \/ WhileBody
    \/ WhileIndexError
    \/ WhileExit
    \/ Return
    \/ CallCombineTopics

\* no call of the entity recognizer is under way
EntitiesIdle ==
    /\ ALLOWED_NER_TYPES = {}
    /\ ner_primary = [kind |-> "unused"]
    /\ ner_ents = <<>>
    /\ ner_call = [fn |-> "none"]
    /\ ner_doc = ""
    /\ ner_result = [kind |-> "none"]
    /\ ner_pc = "off"

\* the requests that can run save() at the same time
Requests == {"r1", "r2"}

\* no save() is under way and no user is stored
UsersIdle ==
    /\ db = <<>>
    /\ db_collation = "unused"
    /\ next_pk = 1
    /\ u_self = [r \in Requests |-> [pk |-> None]]
    /\ u_pc = [r \in Requests |-> "off"]
    /\ saves = 0

InitTopicCalls == InitTopics /\ EntitiesIdle /\ UsersIdle

SpecTopics == InitTopicCalls /\ [][NextTopics]_vars

\* ---------------------------------------------------- claims about topics
\* the topics of the c-th list handed to combine_topics
ClusterTopics(c) == [k \in 1..Len(clusters[c]) |-> input_list[clusters[c][k]]]

\* how often batch position i occurs in the lists handed to combine_topics
Occurrences(i) ==
    Cardinality({ck \in (1..Len(clusters)) \X (1..MaxBatch + MaxCluster + 1) :
                    /\ ck[2] <= Len(clusters[ck[1]])
                    /\ clusters[ck[1]][ck[2]] = i})

RECURSIVE SumOfSizes(_)
SumOfSizes(cs) == IF cs = <<>> THEN 0 ELSE Len(Head(cs)) + SumOfSizes(Tail(cs))

ClusterRunDone == entry = "combine_duplicate_topics" /\ pc = "done"

\* C1: when combine_duplicate_topics has finished, every input topic occurs
\* in exactly one list handed to combine_topics, exactly once, and the sizes
\* of those lists add up to the length of the batch.
C1_ClustersPartitionInput ==
    ClusterRunDone =>
        /\ \A i \in 1..N : Occurrences(i) = 1
        /\ SumOfSizes(clusters) = N

Streams(topic) == Val(GetDefault(topic, "num_aggregate_streams", Some(1)))

CountReducedOf(c) == Val(new_normalized_list[c]["count_reduced"])

\* the outputs built from a list that holds batch position i
OutputsOf(i) == {c \in 1..Len(clusters) : i \in Range(clusters[c])}

Similar(i, j) == sims[i][j] >= Threshold

\* C2: after a run of combine_duplicate_topics, a topic with one stream that
\* is similar to no other topic yields an output with count_reduced = 0; two
\* topics with one stream each, similar to each other and to no other, yield
\* one output with count_reduced = 1; and the batch [A, B, C] with only A and
\* B similar yields exactly two outputs, with count_reduced 1 and 0.
C2_CountReducedOfClusters ==
    ClusterRunDone =>
        /\ \A i \in 1..N :
              (Streams(input_list[i]) = 1 /\ \A j \in 1..N \ {i} : ~Similar(i, j))
              => \E c \in OutputsOf(i) : CountReducedOf(c) = 0
        /\ \A i, j \in 1..N :
              (/\ i < j
               /\ Streams(input_list[i]) = 1 /\ Streams(input_list[j]) = 1
               /\ Similar(i, j)
               /\ \A m \in 1..N \ {i, j} : ~Similar(i, m) /\ ~Similar(j, m))
              => /\ OutputsOf(i) = OutputsOf(j)
                 /\ Cardinality(OutputsOf(i)) = 1
                 /\ \A c \in OutputsOf(i) : CountReducedOf(c) = 1000
        /\ (/\ N = 3
            /\ \A i \in 1..3 : Streams(input_list[i]) = 1
            /\ Similar(1, 2) /\ ~Similar(1, 3) /\ ~Similar(2, 3))
           => /\ Len(new_normalized_list) = 2
              /\ CountReducedOf(1) = 1000
              /\ CountReducedOf(2) = 0

\* C3: the walk over the similarity results of a seed ends at the first
\* result below the threshold or when the results are exhausted; it never
\* reads past the last result.
C3_WalkNeverReadsPastTheEnd == pc # "IndexError"

\* C7: for every list of k topics handed to combine_topics whose first topic
\* has s streams (1 when absent), count_reduced is k - 1 when s < 2 and
\* (k - 1) / log2(s) otherwise (here in thousandths, rounded down); it is
\* never negative, it is 0 when k = 1, and it is 1 for k = 3, s = 4.
C7_CountReduced ==
    \A c \in 1..Len(new_normalized_list) :
        LET k == Len(clusters[c])
            s == Streams(ClusterTopics(c)[1])
            v == CountReducedOf(c)
        IN  /\ s < 2 => v = (k - 1) * 1000
            /\ s >= 2 => v = ((k - 1) * 1000000) \div Log2Milli(s)
            /\ v >= 0
            /\ k = 1 => v = 0
            /\ (k = 3 /\ s = 4) => v = 1000

\* C7 witness: combine_topics has returned for three topics whose first has 4
\* streams and whose others have a different number, and for a single topic
C7_Witness ==
    /\ pc = "done"
    /\ \E c \in 1..Len(new_normalized_list) :
          /\ Len(clusters[c]) = 3
          /\ Streams(ClusterTopics(c)[1]) = 4
          /\ Streams(ClusterTopics(c)[2]) = 1
          /\ Streams(ClusterTopics(c)[3]) = 3
          /\ CountReducedOf(c) = 1000

\* the links of the seed_links list of the c-th output
OutputLinks(c) == heap[Val(new_normalized_list[c]["seed_links"])]

\* the seed_links lists of a sequence of topics, one after the other
RECURSIVE AllLinks(_)
AllLinks(ts) ==
    IF ts = <<>> THEN <<>>
    ELSE (IF Get(Head(ts), "seed_links") = None THEN <<>>
          ELSE input_heap[Val(Head(ts)["seed_links"])]) \o AllLinks(Tail(ts))

\* the urls of a sequence of links, each url at its first occurrence only
RECURSIVE FirstSeenUrls(_, _)
FirstSeenUrls(links, seen) ==
    IF links = <<>> THEN <<>>
    ELSE IF Head(links).url \in seen THEN FirstSeenUrls(Tail(links), seen)
    ELSE <<Head(links).url>> \o FirstSeenUrls(Tail(links), seen \cup {Head(links).url})

UrlSeq(links) == [i \in 1..Len(links) |-> links[i].url]

\* C8: the seed_links of every topic combine_topics returns holds no url
\* twice, also when one topic of the cluster repeats a url in its own list,
\* and lists the distinct urls of the cluster in the order they first occur.
C8_SeedLinksUrlsUnique ==
    \A c \in 1..Len(new_normalized_list) :
        Get(new_normalized_list[c], "seed_links") # None =>
            /\ \A i, j \in 1..Len(OutputLinks(c)) :
                  i # j => OutputLinks(c)[i].url # OutputLinks(c)[j].url
            /\ UrlSeq(OutputLinks(c)) = FirstSeenUrls(AllLinks(ClusterTopics(c)), {})

\* the positions of the c-th cluster whose topic has a non-null value for f
Definers(c, f) == {k \in 1..Len(clusters[c]) : Get(ClusterTopics(c)[k], f) # None}

Min(S) == CHOOSE x \in S : \A y \in S : x <= y

\* C9: each scalar field of the topic combine_topics returns has the value of
\* the first topic of the cluster whose value for it is not None, and is
\* absent when no topic of the cluster has one.
C9_ScalarsFirstNonNullWins ==
    \A c \in 1..Len(new_normalized_list) : \A f \in ScalarFields :
        IF Definers(c, f) = {}
        THEN f \notin DOMAIN new_normalized_list[c]
        ELSE /\ f \in DOMAIN new_normalized_list[c]
             /\ new_normalized_list[c][f] = ClusterTopics(c)[Min(Definers(c, f))][f]

\* C9 witness: a cluster in which a field is None in the first topic and has
\* different values in the second and the third, a field only the first
\* topic has, and a field no topic has
C9_Witness ==
    /\ pc = "done"
    /\ \E c \in 1..Len(new_normalized_list) :
          /\ Len(clusters[c]) = 3
          /\ Definers(c, "title") = {2, 3}
          /\ ClusterTopics(c)[2]["title"] # ClusterTopics(c)[3]["title"]
          /\ Definers(c, "source") = {1}
          /\ Definers(c, "suggested_query") = {}

\* C10: a run leaves the batch and its topics as they were (fields, doc and
\* seed_links lists), and the seed_links list of every topic built is a list
\* object that no input topic holds.
C10_InputsUnchanged ==
    /\ normalized_list = input_list
    /\ \A a \in DOMAIN input_heap : a \in DOMAIN heap /\ heap[a] = input_heap[a]
    /\ \A c \in 1..Len(new_normalized_list) :
          Get(new_normalized_list[c], "seed_links") # None =>
              Val(new_normalized_list[c]["seed_links"]) \notin DOMAIN input_heap

\* C10 witness: a finished run of combine_duplicate_topics, and a finished
\* call of combine_topics, in which a built topic's list received a link of a
\* later topic of its cluster
C10_Grew(c) ==
    /\ Get(new_normalized_list[c], "seed_links") # None
    /\ \E k \in 2..Len(clusters[c]) :
          /\ Get(ClusterTopics(c)[k], "seed_links") # None
          /\ Len(OutputLinks(c)) > Len(AllLinks(SubSeq(ClusterTopics(c), 1, k - 1)))
          /\ AllLinks(SubSeq(ClusterTopics(c), 1, k - 1)) # <<>>

C10_Witness ==
    /\ ClusterRunDone
    /\ \E c \in 1..Len(new_normalized_list) : C10_Grew(c)

\* ------------------------------------------------------ NamedEntityRecognizer
\* most entities in a list GoogleNLP.analyze_entities returns
MaxEntities == 2

allowed_spacy_ner_labels ==
    {"PERSON", "ORG", "GPE", "EVENT", "WORK_OF_ART", "LAW", "PRODUCT"}

\* GoogleNLP.PROPER_MENTION
PROPER_MENTION == "PROPER"

Mention(type_) == [type_ |-> type_]

\* the entities the primary extractor's lists are drawn from
EntityPool ==
    <<[name |-> "Acme", type |-> "ORGANIZATION", salience |-> 9,
       metadata |-> EmptyDict, mentions |-> <<Mention("PROPER"), Mention("PROPER")>>],
      [name |-> "Paris", type |-> "LOCATION", salience |-> 5,
       metadata |-> [wikipedia_url |-> "wiki/Paris"],
       mentions |-> <<Mention("COMMON"), Mention("PROPER")>>],
      [name |-> "election", type |-> "OTHER", salience |-> 1,
       metadata |-> [wikipedia_url |-> "wiki/Election"],
       mentions |-> <<Mention("COMMON")>>],
      [name |-> "city", type |-> "OTHER", salience |-> 9,
       metadata |-> EmptyDict, mentions |-> <<>>]>>

EntityTypes == {"ORGANIZATION", "LOCATION", "OTHER"}

\* what the local model can find in a document: (text, label) in text order
SpacyEnts ==
    {<<>>,
     <<[text |-> "Paris", label_ |-> "GPE"]>>,
     <<[text |-> "Monday", label_ |-> "DATE"]>>,
     <<[text |-> "Acme", label_ |-> "ORG"], [text |-> "Monday", label_ |-> "DATE"],
       [text |-> "Paris", label_ |-> "GPE"], [text |-> "Paris", label_ |-> "GPE"]>>}

\* what a call of GoogleNLP.analyze_entities can do: return a list of
\* entities, return None, or raise the RuntimeError line 138 expects
PrimaryOutcomes ==
    {[kind |-> "list", entities |-> [i \in 1..Len(c) |-> EntityPool[c[i]]]] :
        c \in UNION {[1..m -> 1..Len(EntityPool)] : m \in 0..MaxEntities}}
    \cup {[kind |-> "None"], [kind |-> "RuntimeError"]}

Returned(value) == [kind |-> "return", value |-> value]
Raised(error) == [kind |-> "raise", error |-> error]

Names(entities) == [i \in 1..Len(entities) |-> entities[i].name]

\* spacy_doc_to_entity_list: the texts of the entities with an allowed label,
\* each once, most repeated first (sorted is stable: first seen first)
RECURSIVE EntityCounts(_, _)
EntityCounts(entity_list, entity_counts) ==
    IF entity_list = <<>> THEN entity_counts
    ELSE LET entity == Head(entity_list)
             at == {i \in 1..Len(entity_counts) : entity_counts[i][1] = entity}
         IN  CHOOSE r \in {EntityCounts(Tail(entity_list), c) :
                 c \in {IF at = {} THEN Append(entity_counts, <<entity, 1>>)
                        ELSE [entity_counts EXCEPT ![CHOOSE i \in at : TRUE] =
                                 <<entity, @[2] + 1>>]}} : TRUE

RECURSIVE SortByCount(_, _)
SortByCount(items, sorted) ==
    IF items = <<>> THEN sorted
    ELSE SortByCount(Tail(items), InsertByScore(Head(items), sorted))

spacy_doc_to_entity_list(ents) ==
    LET entity_list == [i \in 1..Len(SelectSeq(ents, LAMBDA e : e.label_ \in allowed_spacy_ner_labels))
                           |-> SelectSeq(ents, LAMBDA e : e.label_ \in allowed_spacy_ner_labels)[i].text]
        ranked == SortByCount(EntityCounts(entity_list, <<>>), <<>>)
    IN  [i \in 1..Len(ranked) |-> ranked[i][1]]

HasProperMention(entity) ==
    \E i \in 1..Len(entity.mentions) : entity.mentions[i].type_ = PROPER_MENTION

\* one copy of the entity for each of its proper mentions
RECURSIVE ProperCopies(_, _)
ProperCopies(entity, mentions) ==
    IF mentions = <<>> THEN <<>>
    ELSE (IF Head(mentions).type_ = PROPER_MENTION THEN <<entity>> ELSE <<>>)
         \o ProperCopies(entity, Tail(mentions))

\* faulty variant: the break is missing, so an entity is appended once for each of
\* its proper mentions
RECURSIVE proper_entities_no_break(_)
proper_entities_no_break(entities) ==
    IF entities = <<>> THEN <<>>
    ELSE ProperCopies(Head(entities), Head(entities).mentions)
         \o proper_entities_no_break(Tail(entities))

\* for entity in entities: for mention in entity.mentions:
\*     if mention.type_ == PROPER_MENTION: proper_entities.append(entity); break
RECURSIVE proper_entities(_)
proper_entities(entities) ==
    IF entities = <<>> THEN <<>>
    ELSE (IF HasProperMention(Head(entities)) THEN <<Head(entities)>> ELSE <<>>)
         \o proper_entities(Tail(entities))

\* the four filters of google_doc_to_entity_list, in the order of the source
\* p holds the keyword arguments
filtered_entities(entities, p) ==
    LET by_salience == SelectSeq(entities, LAMBDA e : e.salience >= p.salience_filter)
        by_type == IF p.restricted_entities_list # None
                   THEN SelectSeq(by_salience,
                                  LAMBDA e : e.type \in Range(Val(p.restricted_entities_list)))
                   ELSE by_salience
        by_wikipedia == IF p.filter_wikipedia_only
                        THEN SelectSeq(by_type, LAMBDA e : "wikipedia_url" \in DOMAIN e.metadata)
                        ELSE by_type
    IN  IF p.filter_proper_only THEN proper_entities(by_wikipedia) ELSE by_wikipedia

\* google_doc_to_entity_list; p holds the keyword arguments
google_doc_to_entity_list(primary, p) ==
    IF primary.kind = "RuntimeError" THEN Raised("RuntimeError")
    ELSE IF primary.kind = "None" THEN Returned(None)
    ELSE LET original_entity_names == Names(primary.entities)
             entities == filtered_entities(primary.entities, p)
         IN  IF p.fallback_if_empty /\ Len(entities) = 0
             THEN Returned(Some(original_entity_names))
             ELSE Returned(Some(Names(entities)))

\* doc_to_entity_list: the primary list with its fixed arguments, else spacy's
doc_to_entity_list(primary, ents, allowed) ==
    LET entity_list ==
            google_doc_to_entity_list(primary,
                [restricted_entities_list |-> Some(allowed),
                 filter_wikipedia_only |-> TRUE,
                 filter_proper_only |-> FALSE,
                 salience_filter |-> 0,
                 fallback_if_empty |-> TRUE])
    IN  IF entity_list.kind = "raise" THEN entity_list
        ELSE IF entity_list.value # None /\ Len(Val(entity_list.value)) > 0
        THEN Returned(Val(entity_list.value))
        ELSE Returned(spacy_doc_to_entity_list(ents))

\* doc_to_multiple_entity_lists: a dict from the requested types to lists
doc_to_multiple_entity_lists(primary, ents, entity_type_list) ==
    IF primary.kind \in {"RuntimeError", "None"}
    THEN \* named_entities is None: every requested type gets spacy's list
         Returned([t \in Range(entity_type_list) |-> spacy_doc_to_entity_list(ents)])
    ELSE LET named_entities == primary.entities
             wiki_entities == SelectSeq(named_entities,
                                        LAMBDA e : "wikipedia_url" \in DOMAIN e.metadata)
             proper == IF "proper" \in Range(entity_type_list)
                       THEN Put(EmptyDict, "proper",
                                Names(proper_entities(named_entities)))
                       ELSE EmptyDict
         IN  Returned(IF "wikipedia" \in Range(entity_type_list)
                      THEN Put(proper, "wikipedia",
                               [i \in 1..Len(wiki_entities) |->
                                   <<wiki_entities[i].name,
                                     wiki_entities[i].metadata["wikipedia_url"]>>])
                      ELSE proper)

\* " " + link['title'] + " " + link['snippet'] for every link
RECURSIVE LinkText(_)
LinkText(links) ==
    IF links = <<>> THEN ""
    ELSE " " \o Head(links).title \o " " \o Head(links).snippet \o LinkText(Tail(links))

\* the document topic_to_entity_list builds; links is the topic's seed_links
\* list (None when it has none)
topic_to_entity_list_doc(topic, links) ==
    IF Get(topic, "doc") # None THEN Val(topic["doc"])
    ELSE Val(topic["title"])
         \o (IF "summary" \in DOMAIN topic THEN " " \o Val(topic["summary"]) ELSE "")
         \o (IF links # None THEN LinkText(Val(links)) ELSE "")

\* the document topic_to_proper_wikipedia_entity_lists builds
topic_to_proper_wikipedia_doc(topic) ==
    Val(topic["title"])
    \o (IF GetDefault(topic, "summary", Some("")) # Some("")
        THEN "; " \o Val(topic["summary"]) ELSE "")

\* the topics the topic_to_* methods are called with: those with a title and
\* no None among the fields the methods concatenate
NerTopicPool == {1, 2, 6}

Docs == {"city election results", "unrelated sports news"}

EntityTypeLists == {<<>>, <<"proper">>, <<"proper", "wikipedia">>, <<"wikipedia", "places">>}

RestrictedLists == {None, Some(<<"ORGANIZATION">>), Some(<<"LOCATION", "OTHER">>)}

InitEntities ==
    /\ ALLOWED_NER_TYPES \in {<<"ORGANIZATION", "LOCATION">>, <<"OTHER">>}
    /\ ner_primary \in PrimaryOutcomes
    /\ ner_ents \in SpacyEnts
    /\ ner_call = [fn |-> "none"]
    /\ ner_doc = ""
    /\ ner_result = [kind |-> "none"]
    /\ ner_pc = "idle"

Call_google_doc_to_entity_list ==
    /\ ner_pc = "idle"
    /\ \E doc \in Docs, restricted \in RestrictedLists, wiki \in BOOLEAN,
          proper \in BOOLEAN, salience \in {0, 5, 10}, fallback \in BOOLEAN :
          LET p == [restricted_entities_list |-> restricted,
                    filter_wikipedia_only |-> wiki,
                    filter_proper_only |-> proper,
                    salience_filter |-> salience,
                    fallback_if_empty |-> fallback]
          IN  /\ ner_call' = [fn |-> "google_doc_to_entity_list", args |-> p]
              /\ ner_doc' = doc
              /\ ner_result' = google_doc_to_entity_list(ner_primary, p)
    /\ ner_pc' = "returned"
    /\ UNCHANGED <<ALLOWED_NER_TYPES, ner_primary, ner_ents>>
    /\ UNCHANGED <<topic_vars, user_vars>>

Call_doc_to_entity_list ==
    /\ ner_pc = "idle"
    /\ \E doc \in Docs :
          /\ ner_call' = [fn |-> "doc_to_entity_list"]
          /\ ner_doc' = doc
    /\ ner_result' = doc_to_entity_list(ner_primary, ner_ents, ALLOWED_NER_TYPES)
    /\ ner_pc' = "returned"
    /\ UNCHANGED <<ALLOWED_NER_TYPES, ner_primary, ner_ents>>
    /\ UNCHANGED <<topic_vars, user_vars>>

Call_doc_to_multiple_entity_lists ==
    /\ ner_pc = "idle"
    /\ \E doc \in Docs, entity_type_list \in EntityTypeLists :
          /\ ner_call' = [fn |-> "doc_to_multiple_entity_lists",
                          entity_type_list |-> entity_type_list]
          /\ ner_doc' = doc
          /\ ner_result' = doc_to_multiple_entity_lists(ner_primary, ner_ents, entity_type_list)
    /\ ner_pc' = "returned"
    /\ UNCHANGED <<ALLOWED_NER_TYPES, ner_primary, ner_ents>>
    /\ UNCHANGED <<topic_vars, user_vars>>

\* topic_to_entity_list: return self.doc_to_entity_list(topic_doc)
Call_topic_to_entity_list ==
    /\ ner_pc = "idle"
    /\ \E t \in NerTopicPool :
          /\ ner_call' = [fn |-> "topic_to_entity_list", topic |-> t]
          /\ ner_doc' = topic_to_entity_list_doc(TopicsOf(<<t>>)[1], Pool[t].links)
    /\ ner_result' = doc_to_entity_list(ner_primary, ner_ents, ALLOWED_NER_TYPES)
    /\ ner_pc' = "returned"
    /\ UNCHANGED <<ALLOWED_NER_TYPES, ner_primary, ner_ents>>
    /\ UNCHANGED <<topic_vars, user_vars>>

\* topic_to_proper_wikipedia_entity_lists:
\* return self.doc_to_multiple_entity_lists(topic_doc, ['proper', 'wikipedia'])
Call_topic_to_proper_wikipedia_entity_lists ==
    /\ ner_pc = "idle"
    /\ \E t \in NerTopicPool :
          /\ ner_call' = [fn |-> "topic_to_proper_wikipedia_entity_lists", topic |-> t,
                          entity_type_list |-> <<"proper", "wikipedia">>]
          /\ ner_doc' = topic_to_proper_wikipedia_doc(TopicsOf(<<t>>)[1])
    /\ ner_result' = doc_to_multiple_entity_lists(ner_primary, ner_ents,
                                                  <<"proper", "wikipedia">>)
    /\ ner_pc' = "returned"
    /\ UNCHANGED <<ALLOWED_NER_TYPES, ner_primary, ner_ents>>
    /\ UNCHANGED <<topic_vars, user_vars>>

NextEntities ==
    \/ Call_google_doc_to_entity_list
    \/ Call_doc_to_entity_list
    \/ Call_doc_to_multiple_entity_lists
    \/ Call_topic_to_entity_list
    \/ Call_topic_to_proper_wikipedia_entity_lists

\* no topic call is under way
TopicsIdle ==
    /\ entry = "none"
    /\ normalized_list = <<>>
    /\ heap = <<>>
    /\ input_list = <<>>
    /\ input_heap = <<>>
    /\ sims = <<>>
    /\ available_list = <<>>
    /\ new_normalized_list = <<>>
    /\ clusters = <<>>
    /\ list_index = 1
    /\ sims_query = <<>>
    /\ sims_index = 1
    /\ topics_to_combine = <<>>
    /\ pc = "off"

InitEntityCalls == InitEntities /\ TopicsIdle /\ UsersIdle

SpecEntities == InitEntityCalls /\ [][NextEntities]_vars

\* ------------------------------------------ claims about the entity recognizer
FallbackList == spacy_doc_to_entity_list(ner_ents)

PrimaryFailed == ner_primary.kind \in {"None", "RuntimeError"}

\* C4: when the primary extractor raises or returns None, doc_to_entity_list,
\* topic_to_entity_list, doc_to_multiple_entity_lists and
\* topic_to_proper_wikipedia_entity_lists raise nothing and return the local
\* extractor's list (the grouped methods: for each requested group).
C4_PrimaryFailureNeverSurfaces ==
    (ner_pc = "returned" /\ PrimaryFailed) =>
        /\ ner_call.fn \in {"doc_to_entity_list", "topic_to_entity_list"} =>
              /\ ner_result.kind = "return"
              /\ ner_result.value = FallbackList
        /\ ner_call.fn \in {"doc_to_multiple_entity_lists",
                            "topic_to_proper_wikipedia_entity_lists"} =>
              /\ ner_result.kind = "return"
              /\ \A t \in Range(ner_call.entity_type_list) :
                    t \in DOMAIN ner_result.value /\ ner_result.value[t] = FallbackList

\* an entity passes the filters the arguments p switch on
Passes(e, p) ==
    /\ e.salience >= p.salience_filter
    /\ p.restricted_entities_list # None => e.type \in Range(Val(p.restricted_entities_list))
    /\ p.filter_wikipedia_only => "wikipedia_url" \in DOMAIN e.metadata
    /\ p.filter_proper_only => \E i \in 1..Len(e.mentions) : e.mentions[i].type_ = "PROPER"

FallbackCall ==
    /\ ner_pc = "returned"
    /\ ner_call.fn = "google_doc_to_entity_list"
    /\ ner_call.args.fallback_if_empty
    /\ ner_primary.kind = "list"
    /\ Len(ner_primary.entities) > 0

\* C5: google_doc_to_entity_list with fallback_if_empty=True on a non-empty
\* primary list returns the names of all the entities, in their order, when no
\* entity passes the filters, and the names of those that pass, in their
\* order, otherwise; the result is never empty.
C5_FallbackIfEmpty ==
    FallbackCall =>
        LET surviving == SelectSeq(ner_primary.entities, LAMBDA e : Passes(e, ner_call.args))
        IN  /\ ner_result.kind = "return"
            /\ ner_result.value # None
            /\ Len(Val(ner_result.value)) > 0
            /\ surviving = <<>> => Val(ner_result.value) = Names(ner_primary.entities)
            /\ surviving # <<>> => Val(ner_result.value) = Names(surviving)

\* C5 witness: the filters removed both entities of the primary list and the
\* call returned both names
C5_Witness ==
    /\ FallbackCall
    /\ Len(ner_primary.entities) = 2
    /\ ner_primary.entities[1] # ner_primary.entities[2]
    /\ SelectSeq(ner_primary.entities, LAMBDA e : Passes(e, ner_call.args)) = <<>>
    /\ ner_result = Returned(Some(Names(ner_primary.entities)))

PrimaryUnusable ==
    \/ PrimaryFailed
    \/ ner_primary.kind = "list" /\ ner_primary.entities = <<>>

\* C6: when the primary extractor returns None, fails or returns an empty
\* list, doc_to_multiple_entity_lists returns every requested group, each
\* mapped to the local extractor's list.
C6_UnusablePrimaryDegradesAllGroups ==
    (/\ ner_pc = "returned"
     /\ ner_call.fn = "doc_to_multiple_entity_lists"
     /\ PrimaryUnusable) =>
        /\ ner_result.kind = "return"
        /\ DOMAIN ner_result.value = Range(ner_call.entity_type_list)
        /\ \A t \in DOMAIN ner_result.value : ner_result.value[t] = FallbackList

\* ------------------------------------------- claims about the greedy clustering
\* how often batch position i occurs in the sequence of positions ps
Count(ps, i) == Cardinality({k \in 1..Len(ps) : ps[k] = i})

\* C11: when a cluster is seeded with topic[i], available[i] is 0 before the
\* walk over the similarity results starts, so the walk does not append the
\* seed at its own result: the seed occurs exactly once in the list handed to
\* combine_topics.
C11_SeedOccursOnce ==
    /\ (pc = "while" /\ sims_index = 1) => available_list[list_index] = 0
    /\ pc = "while" => Count(topics_to_combine, list_index) = 1
    /\ \A c \in 1..Len(clusters) : Count(clusters[c], clusters[c][1]) = 1

\* the batch positions held by the lists handed to combine_topics before the c-th
ClaimedBefore(c) == UNION {Range(clusters[d]) : d \in 1..(c - 1)}

\* the topics other than the seed i that no earlier cluster holds and that
\* score at least the threshold against i
ExpectedMembers(c, i) ==
    {j \in (1..N) \ ({i} \cup ClaimedBefore(c)) : sims[i][j] >= Threshold}

\* ms lists its positions by descending score against i, equal scores by
\* ascending position
InWalkOrder(ms, i) ==
    \A a, b \in 1..Len(ms) :
        a < b => \/ sims[i][ms[a]] > sims[i][ms[b]]
                 \/ sims[i][ms[a]] = sims[i][ms[b]] /\ ms[a] < ms[b]

\* C12: the clustering is greedy in batch order. The seed of each cluster is
\* the lowest batch position no earlier cluster holds; its other members are
\* exactly the topics still unclaimed that score >= 0.5 against the seed, in
\* descending score order, ties in ascending batch position; and a topic an
\* earlier cluster holds is neither the seed nor a member of a later one.
C12_GreedyInBatchOrder ==
    entry = "combine_duplicate_topics" =>
        \A c \in 1..Len(clusters) :
            LET i == clusters[c][1]
                members == Tail(clusters[c])
            IN  /\ i \notin ClaimedBefore(c)
                /\ \A j \in 1..(i - 1) : j \in ClaimedBefore(c)
                /\ Range(members) = ExpectedMembers(c, i)
                /\ Len(members) = Cardinality(ExpectedMembers(c, i))
                /\ InWalkOrder(members, i)
                /\ Range(clusters[c]) \cap ClaimedBefore(c) = {}


\* ---------------------------------------------------------------------------
\* users: EmailUser.save over the stored users, with concurrent requests
\* ---------------------------------------------------------------------------

MaxSaves == 3

Usernames == {"alice", "Alice", "bob"}
Emails == {"a@x.org", "A@x.org", "b@x.org"}

\* the case folding of the iexact lookups
Lower(s) ==
    CASE s = "Alice" -> "alice"
      [] s = "A@x.org" -> "a@x.org"
      [] OTHER -> s

\* objects.filter(username=...) is rewritten to username__iexact, and
\* objects.filter(email=...) to email__iexact; the result is the matching pks
filter(field, value) == {k \in DOMAIN db : Lower(db[k][field]) = Lower(value)}

exists(queryset) == queryset # {}

\* unique=True on username and on email: the database compares the text as its
\* collation says, exactly ("binary") or ignoring case ("nocase")
SameText(a, b) == IF db_collation = "nocase" THEN Lower(a) = Lower(b) ELSE a = b

UniqueViolation(self) ==
    \E k \in DOMAIN db :
        /\ Some(k) # self.pk
        /\ \/ SameText(db[k].username, self.username)
           \/ SameText(db[k].email, self.email)

\* the instances save() can be called on: a new user (pk None), or a stored
\* user loaded and given another username or email
Instances ==
    [pk : {None}, username : Usernames, email : Emails]
        \cup {[pk |-> Some(k), username |-> u, email |-> db[k].email] : k \in DOMAIN db, u \in Usernames}
        \cup {[pk |-> Some(k), username |-> db[k].username, email |-> e] : k \in DOMAIN db, e \in Emails}

InitUsers ==
    /\ db = <<>>
    /\ db_collation \in {"binary", "nocase"}
    /\ next_pk = 1
    /\ u_self = [r \in Requests |-> [pk |-> None]]
    /\ u_pc = [r \in Requests |-> "idle"]
    /\ saves = 0

\* save() is entered; `if not self.pk` sends a new user to the checks and a
\* stored one straight to super().save()
SaveEnter(r) ==
    /\ u_pc[r] = "idle"
    /\ saves < MaxSaves
    /\ \E self \in Instances :
        /\ u_self' = [u_self EXCEPT ![r] = self]
        /\ u_pc' = [u_pc EXCEPT ![r] = IF self.pk = None THEN "check_username" ELSE "super_save"]
    /\ saves' = saves + 1
    /\ UNCHANGED <<db, db_collation, next_pk, topic_vars, entity_vars>>

SaveCheckUsername(r) ==
    /\ u_pc[r] = "check_username"
    /\ u_pc' = [u_pc EXCEPT ![r] = IF exists(filter("username", u_self[r].username))
                                     THEN "ValidationError"
                                     ELSE "check_email"]
    /\ UNCHANGED <<db, db_collation, next_pk, u_self, saves, topic_vars, entity_vars>>

SaveCheckEmail(r) ==
    /\ u_pc[r] = "check_email"
    /\ u_pc' = [u_pc EXCEPT ![r] = IF exists(filter("email", u_self[r].email))
                                     THEN "ValidationError"
                                     ELSE "super_save"]
    /\ UNCHANGED <<db, db_collation, next_pk, u_self, saves, topic_vars, entity_vars>>

\* super().save(): the row is inserted under the next pk, or updated in place,
\* unless a unique constraint refuses it
SuperSave(r) ==
    /\ u_pc[r] = "super_save"
    /\ LET self == u_self[r]
           row == [username |-> self.username, email |-> self.email]
       IN  IF UniqueViolation(self)
           THEN /\ u_pc' = [u_pc EXCEPT ![r] = "IntegrityError"]
                /\ UNCHANGED <<db, next_pk, u_self>>
           ELSE IF self.pk = None
           THEN /\ db' = Put(db, next_pk, row)
                /\ next_pk' = next_pk + 1
                /\ u_self' = [u_self EXCEPT ![r].pk = Some(next_pk)]
                /\ u_pc' = [u_pc EXCEPT ![r] = "saved"]
           ELSE /\ db' = Put(db, Val(self.pk), row)
                /\ u_pc' = [u_pc EXCEPT ![r] = "saved"]
                /\ UNCHANGED <<next_pk, u_self>>
    /\ UNCHANGED <<db_collation, saves, topic_vars, entity_vars>>

\* the request is over, and its worker takes the next one
SaveLeave(r) ==
    /\ u_pc[r] \in {"saved", "ValidationError", "IntegrityError"}
    /\ u_pc' = [u_pc EXCEPT ![r] = "idle"]
    /\ u_self' = [u_self EXCEPT ![r] = [pk |-> None]]
    /\ UNCHANGED <<db, db_collation, next_pk, saves, topic_vars, entity_vars>>

NextUsers ==
    \E r \in Requests :
        \/ SaveEnter(r)
        \/ SaveCheckUsername(r)
        \/ SaveCheckEmail(r)
        \/ SuperSave(r)
        \/ SaveLeave(r)

InitUserCalls == InitUsers /\ TopicsIdle /\ EntitiesIdle

SpecUsers == InitUserCalls /\ [][NextUsers]_vars


\* two stored users are equal ignoring case in their username or their email
CaseDuplicates(a, b) ==
    \/ Lower(db[a].username) = Lower(db[b].username)
    \/ Lower(db[a].email) = Lower(db[b].email)

\* C13: after any saves, creations and updates, interleaved or not, no two
\* stored users have usernames equal ignoring case and no two have emails equal
\* ignoring case; and the save of a new user that would make such a pair is
\* refused with ValidationError, never with another error
C13_NoCaseInsensitiveDuplicates ==
    /\ \A a, b \in DOMAIN db : a # b => ~CaseDuplicates(a, b)
    /\ \A r \in Requests : u_self[r].pk = None => u_pc[r] # "IntegrityError"

=============================================================================
